---- MODULE Spec2Model ----
(***************************************************************************)
(* Model of lib/myip/myip.go: the address resolver (GetRemoteAddr), the    *)
(* router set up by Register, the two handlers (cliHandler, jsonHandler)   *)
(* and the two renderers (WriteText, WriteJSON).                           *)
(*                                                                         *)
(* Strings the code takes apart (addresses, User-Agent values) are         *)
(* sequences of one-character strings; strings it only copies are TLA+     *)
(* strings.  A Go nil pointer / nil error / absent header is NIL / "".     *)
(***************************************************************************)
EXTENDS Integers, Sequences, FiniteSets, TLC

VARIABLES cfg, req, pc, addr, prev, w, handledBy, outcome

vars == <<cfg, req, pc, addr, prev, w, handledBy, outcome>>

\* a Go nil pointer (a present value is a record with other fields)
NIL == [nil |-> TRUE]

---------------------------------------------------------------------------
(* Bounds of the model *)

\* longest transport peer address (req.RemoteAddr)
MaxAddrLen == 4
\* longest value of the trusted header
MaxHdrLen == 2
\* latitude and longitude range over -MaxCoord..MaxCoord
MaxCoord == 1
\* most reverse-DNS names in a response
MaxNames == 2

\* characters an address is made of: a host/port character and the three
\* characters net.SplitHostPort looks for
AddrChars == {"1", ":", "[", "]"}

Strs(n) == UNION {[1..k -> AddrChars] : k \in 0..n}

\* values of the trusted header: unbracketed addresses, with or without port
HdrStrs(n) == UNION {[1..k -> {"1", ":"}] : k \in 0..n}

---------------------------------------------------------------------------
(* Byte-string helpers used by net.SplitHostPort and strings.HasPrefix *)

\* 1-based index of the first c in s, 0 when absent (bytealg.IndexByteString)
IndexByte(s, c) ==
    IF \E n \in 1..Len(s) : s[n] = c
    THEN CHOOSE n \in 1..Len(s) : s[n] = c /\ \A m \in 1..(n-1) : s[m] # c
    ELSE 0

\* 1-based index of the last c in s, 0 when absent (net.last)
LastIndexByte(s, c) ==
    IF \E n \in 1..Len(s) : s[n] = c
    THEN CHOOSE n \in 1..Len(s) : s[n] = c /\ \A m \in (n+1)..Len(s) : s[m] # c
    ELSE 0

\* s[from:] of Go with a 1-based from
Tail1(s, from) == SubSeq(s, from, Len(s))

HasPrefix(s, p) == Len(s) >= Len(p) /\ SubSeq(s, 1, Len(p)) = p

AddrErr(why) == [host |-> <<>>, port |-> <<>>, err |-> why]

\* net.SplitHostPort as GetRemoteAddr calls it: the port starts after the
\* last colon; a leading '[' must be closed by the ']' right before it.
SplitHostPort(hostport) ==
    LET i == LastIndexByte(hostport, ":")
        end == IndexByte(hostport, "]")
        bracketed == hostport[1] = "["
        host == IF bracketed THEN SubSeq(hostport, 2, end - 1)
                             ELSE SubSeq(hostport, 1, i - 1)
        j == IF bracketed THEN 2 ELSE 1
        k == IF bracketed THEN end + 1 ELSE 1
    IN  IF i = 0 THEN AddrErr("missing port in address")
        ELSE IF bracketed /\ end = 0 THEN AddrErr("missing ']' in address")
        ELSE IF bracketed /\ end = Len(hostport)
                THEN AddrErr("missing port in address")
        ELSE IF bracketed /\ end + 1 # i
                THEN IF hostport[end + 1] = ":"
                     THEN AddrErr("too many colons in address")
                     ELSE AddrErr("missing port in address")
        ELSE IF ~bracketed /\ IndexByte(host, ":") > 0
                THEN AddrErr("too many colons in address")
        ELSE IF IndexByte(Tail1(hostport, j), "[") > 0
                THEN AddrErr("unexpected '[' in address")
        ELSE IF IndexByte(Tail1(hostport, k), "]") > 0
                THEN AddrErr("unexpected ']' in address")
        ELSE [host |-> host, port |-> Tail1(hostport, i + 1), err |-> ""]

---------------------------------------------------------------------------
(* Configuration and request *)

\* the header name a deployment configures as Config.IPHeader
IPHeaderName == "X-Real-IP"

\* req.Header.Get(name): "" / <<>> when the header is absent
HeaderGet(r, name) ==
    IF name = IPHeaderName THEN r.ipHeader
    ELSE IF name = "User-Agent" THEN r.userAgent
    ELSE IF name = "X-Forwarded-Proto" THEN r.fwdProto
    ELSE IF name = "Origin" THEN r.origin
    ELSE <<>>

\* DefaultServer.GetRemoteAddr: the (string, error) pair it returns
GetRemoteAddr_NoDebugCheck(c, r) ==
    LET header == IF c.IPHeader # "" THEN HeaderGet(r, c.IPHeader) ELSE <<>>
        remoteAddr == IF header # <<>> THEN header ELSE r.RemoteAddr
        split == SplitHostPort(remoteAddr)
    IN  IF r.queryHost # <<>>
        THEN [addr |-> r.queryHost, err |-> ""]
        ELSE IF split.err # "" THEN [addr |-> remoteAddr, err |-> ""]
        ELSE [addr |-> split.host, err |-> split.err]

GetRemoteAddr_HeaderIgnored(c, r) ==
    LET remoteAddr == r.RemoteAddr
        split == SplitHostPort(remoteAddr)
    IN  IF r.queryHost # <<>> /\ c.Debug
        THEN [addr |-> r.queryHost, err |-> ""]
        ELSE IF split.err # "" THEN [addr |-> remoteAddr, err |-> ""]
        ELSE [addr |-> split.host, err |-> split.err]

GetRemoteAddr_SplitErrReturned(c, r) ==
    LET header == IF c.IPHeader # "" THEN HeaderGet(r, c.IPHeader) ELSE <<>>
        remoteAddr == IF header # <<>> THEN header ELSE r.RemoteAddr
        split == SplitHostPort(remoteAddr)
    IN  IF r.queryHost # <<>> /\ c.Debug
        THEN [addr |-> r.queryHost, err |-> ""]
        ELSE IF split.err # "" THEN [addr |-> remoteAddr, err |-> split.err]
        ELSE [addr |-> split.host, err |-> split.err]

GetRemoteAddr(c, r) ==
    LET header == IF c.IPHeader # "" THEN HeaderGet(r, c.IPHeader) ELSE <<>>
        remoteAddr == IF header # <<>> THEN header ELSE r.RemoteAddr
        split == SplitHostPort(remoteAddr)
    IN  IF r.queryHost # <<>> /\ c.Debug
        THEN [addr |-> r.queryHost, err |-> ""]
        ELSE IF split.err # "" THEN [addr |-> remoteAddr, err |-> ""]
        ELSE [addr |-> split.host, err |-> split.err]

---------------------------------------------------------------------------
(* http.ResponseWriter: the handler's header map, the status line and the   *)
(* header snapshot committed by the first WriteHeader/Write, and the body   *)

RespHeaders == {"Content-Type", "Access-Control-Allow-Origin", "Vary"}

NewWriter ==
    [header |-> [n \in RespHeaders |-> <<>>], wroteHeader |-> FALSE,
     status |-> 0, sent |-> [n \in RespHeaders |-> <<>>], body |-> <<>>]

\* w.Header().Set(name, value): changes the handler's map only
HeaderSet(w0, name, value) == [w0 EXCEPT !.header[name] = value]

\* w.WriteHeader(code): commits the status and a snapshot of the header map;
\* a second call is ignored
WriteHeader(w0, code) ==
    IF w0.wroteHeader THEN w0
    ELSE [w0 EXCEPT !.wroteHeader = TRUE, !.status = code, !.sent = w0.header]

\* w.Write(data): commits status 200 when nothing was committed, fills in a
\* sniffed Content-Type when the committed headers have none, appends data
Write(w0, data) ==
    LET w1 == WriteHeader(w0, 200)
        w2 == IF w1.body = <<>> /\ w1.sent["Content-Type"] = <<>>
              THEN [w1 EXCEPT !.sent["Content-Type"] = <<"text/plain; charset=utf-8">>]
              ELSE w1
    IN  [w2 EXCEPT !.body = @ \o data]

---------------------------------------------------------------------------
(* Response, ErrResponse and the outcomes of HandleMyIP *)

Coords == (0 - MaxCoord)..MaxCoord

DnsNames == <<"n1", "n2", "n3", "n4", "n5">>

ReverseValues == {NIL} \cup {[Names |-> SubSeq(DnsNames, 1, k)] : k \in 0..MaxNames}

WhoisValues == {NIL, [Body |-> "whois-body"]}

LocationValues ==
    {NIL} \cup {[City |-> "city", Region |-> "region", Country |-> "country",
                 Lat |-> la, Long |-> lo] : la \in Coords, lo \in Coords}

UserAgentValues == {NIL, [Family |-> "curl"]}

\* type Response
Response(c, r, id, rev, whois, loc, ua) ==
    [type |-> "Response", RequestID |-> id,
     RemoteAddr |-> GetRemoteAddr(c, r).addr, RemoteAddrFamily |-> "IPv4",
     RemoteAddrReverse |-> rev, RemoteAddrWhois |-> whois,
     ActualRemoteAddr |-> <<>>,
     Method |-> "GET", URL |-> r.path, Proto |-> "HTTP/1.1",
     Location |-> loc, UserAgent |-> ua, Insights |-> ""]

\* type ErrResponse
ErrResponse(e) == [type |-> "ErrResponse", Error |-> e]

PipelineErrors == {"cannot determine remote address"}

\* Server.HandleMyIP: the (response, err) pairs it can return
HandleMyIP(c, r) ==
    {[resp |-> Response(c, r, id, rev, whois, loc, ua), err |-> ""] :
        id \in {"", "req-1"}, rev \in ReverseValues, whois \in WhoisValues,
        loc \in LocationValues, ua \in UserAgentValues}
    \cup {[resp |-> NIL, err |-> e] : e \in PipelineErrors}

\* addInsights: attaches the diagnostic map, to a fresh Response when there
\* is none
addInsights(r, response) ==
    IF response = NIL
    THEN [type |-> "Response", RequestID |-> "", RemoteAddr |-> <<>>,
          RemoteAddrFamily |-> "", RemoteAddrReverse |-> NIL,
          RemoteAddrWhois |-> NIL, ActualRemoteAddr |-> <<>>,
          Method |-> "GET", URL |-> r.path, Proto |-> "HTTP/1.1",
          Location |-> NIL, UserAgent |-> NIL, Insights |-> "insights"]
    ELSE [response EXCEPT !.Insights = "insights"]

---------------------------------------------------------------------------
(* encoding/json of the two body types (struct tags of Response) *)

OmitEmpty(key, present, value) == IF present THEN <<key>> \o value ELSE <<>>

EncodeLocation(l) ==
    <<l.City, l.Region, l.Country, ToString(l.Lat), ToString(l.Long)>>

EncodeResponse(x) ==
    <<"{">>
    \o OmitEmpty("RequestID", x.RequestID # "", <<x.RequestID>>)
    \o <<"RemoteAddr">> \o x.RemoteAddr
    \o <<"RemoteAddrFamily", x.RemoteAddrFamily>>
    \o OmitEmpty("RemoteAddrReverse", x.RemoteAddrReverse # NIL,
                 IF x.RemoteAddrReverse # NIL THEN x.RemoteAddrReverse.Names ELSE <<>>)
    \o OmitEmpty("RemoteAddrWhois", x.RemoteAddrWhois # NIL,
                 IF x.RemoteAddrWhois # NIL THEN <<x.RemoteAddrWhois.Body>> ELSE <<>>)
    \o OmitEmpty("ActualRemoteAddr", x.ActualRemoteAddr # <<>>, x.ActualRemoteAddr)
    \o <<"Method", x.Method, "URL">> \o x.URL \o <<"Proto", x.Proto, "Header">>
    \o OmitEmpty("Location", x.Location # NIL,
                 IF x.Location # NIL THEN EncodeLocation(x.Location) ELSE <<>>)
    \o OmitEmpty("UserAgent", x.UserAgent # NIL,
                 IF x.UserAgent # NIL THEN <<x.UserAgent.Family>> ELSE <<>>)
    \o OmitEmpty("Insights", x.Insights # "", <<x.Insights>>)
    \o <<"}">>

\* json.NewEncoder(w).Encode(obj): one document and a newline, in one Write
JSONEncode(obj) ==
    IF obj = NIL THEN <<"null", "\n">>
    ELSE IF obj.type = "ErrResponse" THEN <<"{", "Error", obj.Error, "}", "\n">>
    ELSE EncodeResponse(obj) \o <<"\n">>

---------------------------------------------------------------------------
(* cliTmpl and its execution by text/template: the text written to the     *)
(* writer up to the first failing node, and the error of that node         *)

\* {{if (and (ne .Location.Lat 0.0) (ne .Location.Long 0.0))}}
ShowCoords_UnlessBothZero(lat, long) == ~(lat = 0 /\ long = 0)

ShowCoords(lat, long) == lat # 0 /\ long # 0

RECURSIVE DnsLines(_)
\* {{range .RemoteAddrReverse.Names}}DNS: {{.}}\n{{end}}
DnsLines(names) ==
    IF names = <<>> THEN <<>>
    ELSE <<"DNS: ", Head(names), "\n">> \o DnsLines(Tail(names))

NilPointer(field) == "nil pointer evaluating " \o field

Execute(data) ==
    IF data = NIL
    THEN [out |-> <<"IP: ">>, err |-> NilPointer("*myip.Response.RemoteAddr")]
    ELSE
    LET ip == <<"IP: ">> \o data.RemoteAddr \o <<"\n">>
        dns == ip \o DnsLines(data.RemoteAddrReverse.Names) \o <<"\nWHOIS:\n">>
        whois == dns \o <<data.RemoteAddrWhois.Body, "\n\nLocation: ">>
        loc == data.Location
        place == whois \o <<loc.City, " ", loc.Region, " ", loc.Country>>
        coords == IF ShowCoords(loc.Lat, loc.Long)
                  THEN <<" (", ToString(loc.Lat), ", ", ToString(loc.Long), ") ">>
                  ELSE <<>>
    IN  IF data.RemoteAddrReverse = NIL
        THEN [out |-> ip, err |-> NilPointer("*dns.Response.Names")]
        ELSE IF data.RemoteAddrWhois = NIL
        THEN [out |-> dns, err |-> NilPointer("*whois.Response.Body")]
        ELSE IF data.Location = NIL
        THEN [out |-> whois, err |-> NilPointer("*location.Response.City")]
        ELSE [out |-> place \o coords \o <<"\n\nID: ", data.RequestID, "\n">>,
              err |-> ""]

---------------------------------------------------------------------------
(* The renderers *)

\* DefaultServer.WriteText
WriteText(w0, r, data, err) ==
    LET w1 == HeaderSet(w0, "Content-Type", <<"text/plain">>)
        ex == IF err = "" THEN Execute(data) ELSE [out |-> <<>>, err |-> err]
        w2 == IF ex.out # <<>> THEN Write(w1, ex.out) ELSE w1
    IN  IF ex.err # "" THEN Write(WriteHeader(w2, 500), <<ex.err>>) ELSE w2

\* scheme of the allowed origin chosen by WriteJSON
Scheme_ForwardedProto(r) ==
    IF r.TLS \/ HeaderGet(r, "X-Forwarded-Proto") = "https"
    THEN "https://" ELSE "http://"

Scheme(r) == IF r.TLS THEN "https://" ELSE "http://"

\* DefaultServer.WriteJSON
WriteJSON_ObjectKept(c, w0, r, obj, err) ==
    LET w1 == IF err # "" THEN WriteHeader(w0, 500) ELSE w0
        w2 == HeaderSet(w1, "Content-Type", <<"application/json">>)
        w3 == HeaderSet(w2, "Access-Control-Allow-Origin", <<Scheme(r), c.Host>>)
        w4 == HeaderSet(w3, "Vary", <<"Origin">>)
    IN  Write(w4, JSONEncode(obj))

WriteJSON(c, w0, r, obj, err) ==
    LET w1 == IF err # "" THEN WriteHeader(w0, 500) ELSE w0
        o1 == IF err # "" THEN ErrResponse(err) ELSE obj
        w2 == HeaderSet(w1, "Content-Type", <<"application/json">>)
        w3 == HeaderSet(w2, "Access-Control-Allow-Origin", <<Scheme(r), c.Host>>)
        w4 == HeaderSet(w3, "Vary", <<"Origin">>)
    IN  Write(w4, JSONEncode(o1))

---------------------------------------------------------------------------
(* The router built by Register *)

Curl == <<"c", "u", "r", "l", "/">>
Wget == <<"W", "g", "e", "t", "/">>

\* isCli
isCli(r) ==
    LET ua == HeaderGet(r, "User-Agent")
    IN  HasPrefix(ua, Curl) \/ HasPrefix(ua, Wget)

\* a path is the sequence of its segments: "/" is <<"">>, "/json" is
\* <<"json">>, "/json/" is <<"json", "">>, "//json" is <<"", "json">>
RECURSIVE NonEmptySegments(_)
NonEmptySegments(p) ==
    IF p = <<>> THEN <<>>
    ELSE IF Head(p) = "" THEN NonEmptySegments(Tail(p))
    ELSE <<Head(p)>> \o NonEmptySegments(Tail(p))

\* mux cleanPath: path.Clean, keeping a trailing slash
CleanPath(p) ==
    LET np == NonEmptySegments(p)
    IN  IF np = <<>> THEN <<"">>
        ELSE IF p[Len(p)] = "" THEN np \o <<"">> ELSE np

\* the routes in the order Register adds them
Routes_JsonFirst == <<"jsonHandler", "cliHandler", "HandleConfigJs", "FileServer">>

Routes == <<"cliHandler", "jsonHandler", "HandleConfigJs", "FileServer">>

RouteMatches(name, r) ==
    IF name = "cliHandler" THEN isCli(r)
    ELSE IF name = "jsonHandler" THEN r.path = <<"json">>
    ELSE IF name = "HandleConfigJs" THEN r.path = <<"config.js">>
    ELSE TRUE

\* Router.Match: the first route that matches
Match(r) ==
    Routes[CHOOSE n \in 1..Len(Routes) :
              /\ RouteMatches(Routes[n], r)
              /\ \A m \in 1..(n-1) : ~RouteMatches(Routes[m], r)]

\* secure middleware (SSLRedirect, SSLProxyHeaders, IsDevelopment): does the
\* request reach the route's handler
SecurePass(c, r) ==
    c.Debug \/ r.TLS \/ HeaderGet(r, "X-Forwarded-Proto") = "https"

\* Router.ServeHTTP with the middleware of r.Use: who answers the request
Dispatch(c, r) ==
    IF CleanPath(r.path) # r.path THEN "CleanPathRedirect"
    ELSE IF ~SecurePass(c, r) THEN "SSLRedirect"
    ELSE Match(r)

---------------------------------------------------------------------------
(* Requests *)

UserAgents ==
    { <<>>,
      <<"c", "u", "r", "l", "/", "7", ".", "6", "8", ".", "0">>,
      <<"W", "g", "e", "t", "/", "1">>,
      <<"C", "u", "r", "l", "/", "7">>,
      <<"c", "u", "r", "l">>,
      <<"M", "o", "z", "i", "l", "l", "a", "/", "5", ".", "0">> }

\* "/", "/json", "/json/", "//json", "/config.js", "/index.html",
\* "/index.html/json"
Paths ==
    { <<"">>, <<"json">>, <<"json", "">>, <<"", "json">>, <<"config.js">>,
      <<"index.html">>, <<"index.html", "json">> }

\* values of the "host" query parameter: absent, bare, host:port
QueryHosts == { <<>>, <<"1">>, <<"1", ":", "1">> }

Hosts == {"myip.example", "ip.example"}

Request(remote, qhost, iphdr, ua, path, tls, proto, origin) ==
    [RemoteAddr |-> remote, queryHost |-> qhost, ipHeader |-> iphdr,
     userAgent |-> ua, path |-> path, TLS |-> tls, fwdProto |-> proto,
     origin |-> origin]

NoOutcome == [resp |-> NIL, err |-> ""]

NoAddr == [addr |-> <<>>, err |-> ""]

---------------------------------------------------------------------------
(* Serving one request: Register's router and handlers *)

Init ==
    /\ cfg \in [Debug : BOOLEAN, IPHeader : {""}, Host : Hosts]
    /\ \E ua \in UserAgents, path \in Paths, tls \in BOOLEAN,
          proto \in {"", "https"}, origin \in {"", "https://other.example"} :
          req = Request(<<"1", ":", "1">>, <<>>, <<>>, ua, path, tls, proto, origin)
    /\ pc = "recv"
    /\ addr = NoAddr
    /\ prev = NIL
    /\ w = NewWriter
    /\ handledBy = <<>>
    /\ outcome = NoOutcome

Answered(name) ==
    /\ pc = "recv"
    /\ Dispatch(cfg, req) = name
    /\ handledBy' = Append(handledBy, name)
    /\ pc' = "done"
    /\ UNCHANGED <<cfg, req, addr, prev>>

\* mux redirects a request whose path is not clean
CleanPathRedirect ==
    /\ Answered("CleanPathRedirect")
    /\ w' = WriteHeader(w, 301)
    /\ UNCHANGED outcome

\* the secure middleware redirects a plain-HTTP request outside debug
SSLRedirect ==
    /\ Answered("SSLRedirect")
    /\ w' = WriteHeader(w, 301)
    /\ UNCHANGED outcome

cliHandler ==
    /\ Answered("cliHandler")
    /\ \E o \in HandleMyIP(cfg, req) :
          /\ outcome' = o
          /\ w' = WriteText(w, req, o.resp, o.err)

jsonHandler ==
    /\ Answered("jsonHandler")
    /\ \E o \in HandleMyIP(cfg, req) :
          /\ outcome' = o
          /\ LET response == IF o.err # "" THEN addInsights(req, o.resp) ELSE o.resp
             IN  w' = WriteJSON(cfg, w, req, response, o.err)

\* app.HandleConfigJs: not part of this file
HandleConfigJs ==
    /\ Answered("HandleConfigJs")
    /\ w' = Write(HeaderSet(w, "Content-Type", <<"application/javascript">>), <<"config.js">>)
    /\ UNCHANGED outcome

\* http.FileServer over ./static/
FileServer ==
    /\ Answered("FileServer")
    /\ \E found \in BOOLEAN :
          w' = IF found THEN Write(w, <<"static file">>)
               ELSE Write(WriteHeader(w, 404), <<"404 page not found\n">>)
    /\ UNCHANGED outcome

Next ==
    \/ CleanPathRedirect
    \/ SSLRedirect
    \/ cliHandler
    \/ jsonHandler
    \/ HandleConfigJs
    \/ FileServer

Spec == Init /\ [][Next]_vars

---------------------------------------------------------------------------
(* Resolving the address of a request, and of the same request sent again  *)
(* without its "host" query parameter                                      *)

InitAddr ==
    /\ cfg \in [Debug : BOOLEAN, IPHeader : {"", IPHeaderName}, Host : {"myip.example"}]
    /\ \E remote \in Strs(MaxAddrLen), qhost \in QueryHosts,
          iphdr \in HdrStrs(MaxHdrLen) :
          req = Request(remote, qhost, iphdr, <<>>, <<"">>, FALSE, "", "")
    /\ pc = "recv"
    /\ addr = NoAddr
    /\ prev = NIL
    /\ w = NewWriter
    /\ handledBy = <<>>
    /\ outcome = NoOutcome

ResolveAddr ==
    /\ pc = "recv"
    /\ addr' = GetRemoteAddr(cfg, req)
    /\ pc' = "resolved"
    /\ UNCHANGED <<cfg, req, prev, w, handledBy, outcome>>

ResendWithoutHost ==
    /\ pc = "resolved"
    /\ prev = NIL
    /\ req.queryHost # <<>>
    /\ prev' = [req |-> req, addr |-> addr]
    /\ req' = [req EXCEPT !.queryHost = <<>>]
    /\ pc' = "recv"
    /\ UNCHANGED <<cfg, addr, w, handledBy, outcome>>

NextAddr ==
    \/ ResolveAddr
    \/ ResendWithoutHost

SpecAddr == InitAddr /\ [][NextAddr]_vars

---------------------------------------------------------------------------
(* What "parses as host:port" means, stated without the parser *)

Special == {":", "[", "]"}

NoneOf(s, chars) == \A n \in 1..Len(s) : s[n] \notin chars

SubSeqs(s) == {SubSeq(s, i, j) : i \in 1..(Len(s) + 1), j \in 0..Len(s)}

\* c is host ":" port, or "[" host "]:" port
ParsesAs(c, h) ==
    \E p \in SubSeqs(c) :
        /\ NoneOf(p, Special)
        /\ \/ c = h \o <<":">> \o p /\ NoneOf(h, Special)
           \/ c = <<"[">> \o h \o <<"]", ":">> \o p /\ NoneOf(h, {"[", "]"})

HostOf(c) ==
    IF \E h \in SubSeqs(c) : ParsesAs(c, h)
    THEN CHOOSE h \in SubSeqs(c) : ParsesAs(c, h)
    ELSE c

OverrideApplies == req.queryHost # <<>> /\ cfg.Debug

\* the address the resolver starts from when no override applies
Candidate ==
    IF cfg.IPHeader # "" /\ req.ipHeader # <<>> THEN req.ipHeader
    ELSE req.RemoteAddr

---------------------------------------------------------------------------
(* Claims about GetRemoteAddr (checked under SpecAddr) *)

\* C1: with a non-empty "host" query parameter, the resolved address is the
\* parameter verbatim when Config.Debug is set, whatever the peer address and
\* the trusted header are; when Config.Debug is not set the result is that of
\* the identical request without the parameter.
C1_DebugOverride ==
    /\ (pc = "resolved" /\ req.queryHost # <<>> /\ cfg.Debug)
          => (addr.addr = req.queryHost /\ addr.err = "")
    /\ (pc = "resolved" /\ prev # NIL /\ ~cfg.Debug) => addr = prev.addr

\* the override wins over a configured, present header and a different peer,
\* and is not port-stripped
C1_Witness ==
    /\ pc = "resolved" /\ cfg.Debug /\ cfg.IPHeader # ""
    /\ req.queryHost = <<"1", ":", "1">> /\ addr.addr = <<"1", ":", "1">>
    /\ req.ipHeader = <<"1", "1">> /\ req.RemoteAddr = <<"[", "]", ":", "1">>

\* C2: when no debug override applies, the address is derived from the
\* trusted header's value if Config.IPHeader is set and the header is present
\* and non-empty, and from req.RemoteAddr otherwise.
C2_TrustedHeaderPrecedence ==
    (pc = "resolved" /\ ~OverrideApplies) =>
        addr.addr = HostOf(IF cfg.IPHeader # "" /\ req.ipHeader # <<>>
                           THEN req.ipHeader ELSE req.RemoteAddr)

\* header "1:" wins over peer "[1]:"
C2_Witness ==
    /\ pc = "resolved" /\ ~cfg.Debug /\ cfg.IPHeader # ""
    /\ req.ipHeader = <<"1", ":">> /\ req.RemoteAddr = <<"[", ":", "]", ":">>
    /\ addr.addr = <<"1">>

\* C3: the candidate address is returned without its port when it parses as
\* host:port and unchanged when it does not; the returned error is always nil.
C3_PortStrippingNeverFails ==
    pc = "resolved" =>
        /\ addr.err = ""
        /\ ~OverrideApplies =>
              IF \E h \in SubSeqs(Candidate) : ParsesAs(Candidate, h)
              THEN ParsesAs(Candidate, addr.addr)
              ELSE addr.addr = Candidate

\* a malformed peer address (two colons) comes back unchanged, no error
C3_Witness ==
    /\ pc = "resolved" /\ ~OverrideApplies /\ cfg.IPHeader = ""
    /\ req.RemoteAddr = <<"1", ":", "1", ":">>
    /\ addr = [addr |-> <<"1", ":", "1", ":">>, err |-> ""]

---------------------------------------------------------------------------
(* Claims about the handlers and renderers (checked under Spec) *)

Range(f) == {f[n] : n \in DOMAIN f}

HandledBy(name) == pc = "done" /\ handledBy = <<name>>

ErrBody(e) == <<"{", "Error", e, "}", "\n">>

\* the texts that only an error puts into a body
ErrorTexts ==
    PipelineErrors \cup
    {NilPointer(f) : f \in {"*myip.Response.RemoteAddr", "*dns.Response.Names",
                            "*whois.Response.Body", "*location.Response.City"}}

EnrichmentAbsent(x) ==
    \/ x.RemoteAddrReverse = NIL \/ x.RemoteAddrWhois = NIL
    \/ x.Location = NIL \/ x.UserAgent = NIL

\* C4: on /json the body is never empty or null; with an error the status
\* is 500 and the body is the ErrResponse of the error's text and nothing of
\* the Response; without one the status is 200 and the body is the Response.
C4_JsonBodyExclusive ==
    HandledBy("jsonHandler") =>
        /\ w.body # <<>> /\ w.body # <<"null", "\n">>
        /\ outcome.err # "" =>
              /\ w.status = 500
              /\ w.body = ErrBody(outcome.err)
              /\ Range(w.body) \cap {"RemoteAddr", "Method", "Insights"} = {}
        /\ outcome.err = "" =>
              /\ w.status = 200
              /\ w.body = EncodeResponse(outcome.resp) \o <<"\n">>
              /\ "Error" \notin Range(w.body)
              /\ "RemoteAddr" \in Range(w.body)

C4_Witness ==
    /\ HandledBy("jsonHandler") /\ outcome.err # ""
    /\ w.status = 500 /\ w.body = ErrBody("cannot determine remote address")

\* C5: a Response returned with a nil error and one or more enrichment fields
\* absent is answered with status 200 and a rendering of that Response, by
\* the text handler as well as by the JSON handler, and no error is surfaced.
C5_PartialEnrichmentRenders ==
    (pc = "done" /\ handledBy \in {<<"cliHandler">>, <<"jsonHandler">>}
        /\ outcome.err = "" /\ EnrichmentAbsent(outcome.resp)) =>
        /\ w.status = 200
        /\ Range(w.body) \cap ErrorTexts = {}
        /\ handledBy = <<"jsonHandler">> =>
              w.body = EncodeResponse(outcome.resp) \o <<"\n">>
        /\ handledBy = <<"cliHandler">> =>
              /\ SubSeq(w.body, 1, 1) = <<"IP: ">>
              /\ SubSeq(w.body, Len(w.body) - 2, Len(w.body))
                    = <<"\n\nID: ", outcome.resp.RequestID, "\n">>

\* C6: when executing the template fails, the response has status 500 and
\* its body is the error text and nothing else.
C6_TemplateFailureIs500 ==
    (HandledBy("cliHandler") /\ outcome.err = ""
        /\ Execute(outcome.resp).err # "") =>
        /\ w.status = 500
        /\ w.body = <<Execute(outcome.resp).err>>

\* C7: every response of WriteJSON, the 500 one as well as the 200 one, is
\* sent with Content-Type: application/json, Vary: Origin and
\* Access-Control-Allow-Origin.
C7_JsonHeadersSent ==
    HandledBy("jsonHandler") =>
        /\ w.sent["Content-Type"] = <<"application/json">>
        /\ w.sent["Vary"] = <<"Origin">>
        /\ w.sent["Access-Control-Allow-Origin"] # <<>>

\* C8: the Access-Control-Allow-Origin value WriteJSON sets is "https://" +
\* Config.Host on a TLS connection and "http://" + Config.Host otherwise,
\* whatever the request's headers are.
C8_CorsOriginScheme ==
    HandledBy("jsonHandler") =>
        /\ req.TLS =>
              w.header["Access-Control-Allow-Origin"] = <<"https://", cfg.Host>>
        /\ ~req.TLS =>
              w.header["Access-Control-Allow-Origin"] = <<"http://", cfg.Host>>

\* a plain connection announcing https in X-Forwarded-Proto and an Origin
C8_Witness ==
    /\ HandledBy("jsonHandler") /\ ~req.TLS
    /\ req.fwdProto = "https" /\ req.origin # ""
    /\ w.header["Access-Control-Allow-Origin"] = <<"http://", "ip.example">>

CoordsShown == " (" \in Range(w.body)

FullReport ==
    /\ HandledBy("cliHandler") /\ outcome.err = ""
    /\ Execute(outcome.resp).err = ""

\* C9 as stated: the coordinates are left out when latitude and longitude
\* are both 0 and are included in every other case.
C9_CoordsUnlessBothZero ==
    FullReport =>
        (CoordsShown <=>
            ~(outcome.resp.Location.Lat = 0 /\ outcome.resp.Location.Long = 0))

\* C9 amended: the coordinates are included when latitude and longitude are
\* both non-zero and left out when either of them is 0.
C9_CoordsWhenBothNonZero ==
    FullReport =>
        (CoordsShown <=>
            (outcome.resp.Location.Lat # 0 /\ outcome.resp.Location.Long # 0))

C9_Witness ==
    /\ FullReport /\ ~CoordsShown
    /\ outcome.resp.Location.Lat = 0 /\ outcome.resp.Location.Long = 1

ScriptUA(ua) ==
    /\ Len(ua) >= 5
    /\ <<ua[1], ua[2], ua[3], ua[4], ua[5]>>
          \in { <<"c", "u", "r", "l", "/">>, <<"W", "g", "e", "t", "/">> }

TextAnswer ==
    /\ w.header["Content-Type"] = <<"text/plain">>
    /\ w.body # <<>>
    /\ w.body[1] = "IP: " \/ w.body[1] \in ErrorTexts

JsonAnswer == w.body # <<>> /\ w.body[1] = "{" /\ w.body[Len(w.body)] = "\n"

Dispatched ==
    /\ Len(handledBy) = 1
    /\ ScriptUA(req.userAgent) => (HandledBy("cliHandler") /\ TextAnswer)
    /\ (~ScriptUA(req.userAgent) /\ req.path = <<"json">>)
          => (HandledBy("jsonHandler") /\ JsonAnswer)
    /\ HandledBy("cliHandler") => ScriptUA(req.userAgent)

PathIsClean(p) == \A n \in 1..(Len(p) - 1) : p[n] # ""

ReachesHandler ==
    /\ PathIsClean(req.path)
    /\ cfg.Debug \/ req.TLS \/ req.fwdProto = "https"

====
